---- MODULE Spec2Model ----
(***************************************************************************)
(* A model of the AI news agent: the text normaliser, the SQLite-backed    *)
(* news store (SimpleNewsDB) and the two discovery pipelines               *)
(* (search_fresh_ai_news of Agent.py, search_trending_ai_news of AI.py).   *)
(*                                                                         *)
(* Text is a sequence of characters; a character is a one-character string *)
(* or the name of a character that has no printable form ("NUL", "TAB").   *)
(* The md5 digest is taken as injective: a content_hash is the string that *)
(* is hashed.                                                              *)
(***************************************************************************)
EXTENDS Integers, Sequences, FiniteSets, TLC

VARIABLES
    table,      \* schema of the news table of ai_news.db ("none": no table)
    rows,       \* the rows of the news table
    seq,        \* sqlite_sequence: the largest id handed out so far
    backups,    \* number of stores renamed aside as <db>.backup_<time>
    now,        \* the wall clock
    ops,        \* number of top-level operations performed so far
    prog,       \* the program whose process is running: "agent", "ai", "none"
    last,       \* what the last store operation was given and what it returned
    pc,         \* position of the running discovery pipeline ("idle": none)
    srcIdx,     \* index of the source the pipeline probes next
    found,      \* found_articles (Agent.py) / best_article (AI.py, 0 or 1 entry)
    run,        \* what the running (or last) pipeline run has done
    runs,       \* number of pipeline runs started so far
    text,       \* normaliser bench: the input text
    edits,      \* normaliser bench: characters inserted into the input so far
    out1,       \* normaliser bench: clean_text_for_db(text), once computed
    out2,       \* normaliser bench: clean_text_for_db(out1), once computed
    args,       \* function bench: the arguments of the calls under test
    res         \* function bench: what the calls returned (<<>>: not called yet)

vars == <<table, rows, seq, backups, now, ops, prog, last, pc, srcIdx, found, run, runs,
          text, edits, out1, out2, args, res>>

storeVars == <<table, rows, seq, backups, now, ops, prog, last>>
runVars == <<pc, srcIdx, found, run, runs>>
benchVars == <<text, edits, out1, out2, args, res>>

----------------------------------------------------------------------------
(* Bounds of the model *)

MaxEdits == 2       \* characters inserted into a seed text of the bench
MaxOps == 3         \* top-level operations in one behaviour
MaxFrames == 6      \* call depth at which the interpreter raises RecursionError
MaxFaults == 1      \* injected faults of one kind in one call
MaxClock == 1       \* ticks of the wall clock
MaxRuns == 1        \* pipeline runs in one behaviour

----------------------------------------------------------------------------
(* Text *)

Min(a, b) == IF a < b THEN a ELSE b

\* s[:n]
Prefix(s, n) == SubSeq(s, 1, Min(n, Len(s)))

\* the characters str.split() and str.strip() take for whitespace
IsSpace(c) == c \in {" ", "TAB", "CR", "LF", "VT", "NBSP"}

\* [\x00-\x08\x0b\x0c\x0e-\x1f\x7f]
IsControl(c) == c \in {"NUL", "SOH", "VT"}

Uppers ==
    <<"A", "B", "C", "D", "E", "F", "G", "H", "I", "J", "K", "L", "M", "N",
      "O", "P", "Q", "R", "S", "T", "U", "V", "W", "X", "Y", "Z">>

Lowers ==
    <<"a", "b", "c", "d", "e", "f", "g", "h", "i", "j", "k", "l", "m", "n",
      "o", "p", "q", "r", "s", "t", "u", "v", "w", "x", "y", "z">>

UpperSet == {Uppers[i] : i \in 1..Len(Uppers)}
LowerMap == [c \in UpperSet |-> Lowers[CHOOSE i \in 1..Len(Uppers) : Uppers[i] = c]]

LowerChar(c) == IF c \in UpperSet THEN LowerMap[c] ELSE c

\* str.lower()
Lower(s) == [i \in 1..Len(s) |-> LowerChar(s[i])]

RECURSIVE LStrip(_)
LStrip(s) == IF s # <<>> /\ IsSpace(Head(s)) THEN LStrip(Tail(s)) ELSE s

RECURSIVE RStrip(_)
RStrip(s) ==
    IF s # <<>> /\ IsSpace(s[Len(s)]) THEN RStrip(SubSeq(s, 1, Len(s) - 1)) ELSE s

\* str.strip()
Strip(s) == RStrip(LStrip(s))

\* the place of the first occurrence of old in s, 0 if there is none
Find(s, old) ==
    LET At(i) == s[i] = old[1] /\ SubSeq(s, i, i + Len(old) - 1) = old
        places == {i \in 1..(Len(s) - Len(old) + 1) : At(i)}
    IN IF places = {} THEN 0 ELSE CHOOSE i \in places : \A j \in places : i <= j

\* str.replace(old, new): the non-overlapping occurrences, left to right
RECURSIVE Replace(_, _, _)
Replace(s, old, new) ==
    LET i == Find(s, old)
    IN IF i = 0 THEN s
       ELSE SubSeq(s, 1, i - 1) \o new
            \o Replace(SubSeq(s, i + Len(old), Len(s)), old, new)

\* the replacements table as the interpreter reads line 218: the two
\* apostrophe entries are written with plain quotes, so ''' opens a string
\* and the table holds the key  : "'",  in their place; a double quote maps
\* to itself and no curly quote is a key
QuoteKey == <<":", " ", "\"", "'", "\"", ",", " ">>

Replacements ==
    << <<<<"\"">>, <<"\"">>>>,
       <<QuoteKey, <<"'">>>>,
       <<<<"EN">>, <<"-">>>>,
       <<<<"EM">>, <<"-">>>>,
       <<<<"ELL">>, <<".", ".", ".">>>> >>

Chars(s) == {s[i] : i \in 1..Len(s)}

\* for old, new in replacements.items(): text = text.replace(old, new); a key
\* whose first character is not in the text has no occurrence
RECURSIVE ApplyReplacements(_, _)
ApplyReplacements(s, k) ==
    IF k > Len(Replacements) THEN s
    ELSE IF Replacements[k][1][1] \notin Chars(s) THEN ApplyReplacements(s, k + 1)
    ELSE ApplyReplacements(Replace(s, Replacements[k][1], Replacements[k][2]), k + 1)

\* ' '.join(text.split()): the words of s, one space between two of them
JoinSplit(s) ==
    LET last_word == Len(RStrip(s))
        Kept(i) == \/ ~IsSpace(s[i])
                   \/ i > 1 /\ i < last_word /\ ~IsSpace(s[i - 1])
        places == SelectSeq([i \in 1..Len(s) |-> i], Kept)
    IN [k \in 1..Len(places) |-> IF IsSpace(s[places[k]]) THEN " " ELSE s[places[k]]]

NotNul(c) == c # "NUL"
NotControl(c) == ~IsControl(c)
CrLfTabToSpace(c) == IF c \in {"CR", "LF", "TAB"} THEN " " ELSE c

\* clean_text_for_db; no step of it raises on a string, so the except branch
\* ("Text cleaning failed") is never taken
clean_text_for_db(t) ==
    IF t = <<>> THEN <<>>
    ELSE LET a == SelectSeq(t, NotNul)
             b == [i \in 1..Len(a) |-> CrLfTabToSpace(a[i])]
             c == ApplyReplacements(b, 1)
             d == SelectSeq(c, NotControl)
         IN Strip(JoinSplit(d))

----------------------------------------------------------------------------
(* The news store: the table news of ai_news.db *)

\* NULL in a column
Null == <<"<null>">>

\* no table news in the file (or no file)
NoTable ==
    [exists |-> FALSE, summarize |-> FALSE, content_hash |-> FALSE,
     hash_unique |-> FALSE]

\* CREATE TABLE of Agent.py: url UNIQUE NOT NULL, content_hash TEXT UNIQUE
FullSchema ==
    [exists |-> TRUE, summarize |-> TRUE, content_hash |-> TRUE,
     hash_unique |-> TRUE]

\* CREATE TABLE of AI.py: url UNIQUE NOT NULL, no summarize, no content_hash
LegacySchema ==
    [exists |-> TRUE, summarize |-> FALSE, content_hash |-> FALSE,
     hash_unique |-> FALSE]

\* ALTER TABLE news ADD COLUMN summarize TEXT / content_hash TEXT, for the
\* columns PRAGMA table_info does not list: the added content_hash column
\* carries no UNIQUE constraint
AddMissingColumns(tb) == [tb EXCEPT !.summarize = TRUE, !.content_hash = TRUE]

TitleMax == 500
UrlMax == 1000
ContentMax == 5000
SummaryMax == 500
SourceMax == 200
SnippetLen == 200

\* "AI News Article"
DefaultTitle ==
    <<"A", "I", " ", "N", "e", "w", "s", " ", "A", "r", "t", "i", "c", "l",
     "e">>

\* "https://unknown-source.com"
DefaultUrl ==
    <<"h", "t", "t", "p", "s", ":", "/", "/", "u", "n", "k", "n", "o", "w",
     "n", "-", "s", "o", "u", "r", "c", "e", ".", "c", "o", "m">>

\* "AI technology news update."
DefaultSummary ==
    <<"A", "I", " ", "t", "e", "c", "h", "n", "o", "l", "o", "g", "y", " ",
     "n", "e", "w", "s", " ", "u", "p", "d", "a", "t", "e", ".">>

\* "Unknown Source"
DefaultSource ==
    <<"U", "n", "k", "n", "o", "w", "n", " ", "S", "o", "u", "r", "c", "e">>

\* the five cleaned and bounded fields of save_news
clean_title(a) ==
    IF a.title # <<>> THEN Prefix(clean_text_for_db(a.title), TitleMax) ELSE DefaultTitle
clean_url(a) ==
    IF a.url # <<>> THEN Prefix(clean_text_for_db(a.url), UrlMax) ELSE DefaultUrl
clean_content(a) ==
    IF a.content # <<>> THEN Prefix(clean_text_for_db(a.content), ContentMax) ELSE <<>>
clean_summary(a) ==
    IF a.summarize # <<>> THEN Prefix(clean_text_for_db(a.summarize), SummaryMax)
    ELSE DefaultSummary
clean_source(a) ==
    IF a.source # <<>> THEN Prefix(clean_text_for_db(a.source), SourceMax)
    ELSE DefaultSource

\* content_hash of save_news: md5 of the lowered, stripped clean title
\* followed by the lowered, stripped snippet
save_hash(a) ==
    LET ct == clean_title(a)
        cc == clean_content(a)
        content_snippet == IF cc # <<>> THEN Prefix(cc, SnippetLen) ELSE ct
    IN Strip(Lower(ct)) \o Strip(Lower(content_snippet))

\* the hash is_duplicate looks up
duplicate_hash(title, content) ==
    LET content_snippet == IF content # <<>> THEN Prefix(content, SnippetLen) ELSE <<>>
    IN Strip(Lower(title)) \o Strip(Lower(content_snippet))

\* is_duplicate: SELECT id FROM news WHERE content_hash = ?; a failing
\* lookup (no table, no content_hash column) answers False
is_duplicate(tb, rs, title, content) ==
    /\ tb.exists /\ tb.content_hash
    /\ \E r \in rs : r.content_hash = duplicate_hash(title, content)

\* INSERT OR REPLACE: the rows that hold the new row's url, or its
\* content_hash where the column is UNIQUE, are deleted, then the row is
\* inserted under a fresh id
\* a store that enforces the content_hash constraint only
ConflictsHashOnly(tb, rs, url, hash) ==
    {r \in rs : tb.hash_unique /\ hash # Null /\ r.content_hash = hash}

Conflicts(tb, rs, url, hash) ==
    {r \in rs : \/ r.url = url
                \/ tb.hash_unique /\ hash # Null /\ r.content_hash = hash}

InsertOrReplace(st, title, url, content, summarize, source, hash, t) ==
    LET new == [id |-> st.seq + 1, title |-> title, url |-> url,
                content |-> content, summarize |-> summarize,
                source |-> source, scraped_date |-> t,
                content_hash |-> hash, created_at |-> t]
    IN [st EXCEPT !.rows = (@ \ Conflicts(st.table, st.rows, url, hash)) \cup {new},
                  !.seq = @ + 1]

\* what the environment does to the writes and to the store creations of one
\* call: the first nocols writes fail on a missing column, the write after
\* them ends as tail says; the first cfails creations fail, before the
\* rename (norename) or after it (nocreate). Forever: every one fails.
Forever == -1

Fails(n, upto) == upto = Forever \/ n <= upto

NoFaults == [nocols |-> 0, tail |-> "ok", cfails |-> 0, ckind |-> "nocreate"]

\* the calls made and the connections opened and closed by one top-level call
ZeroCount == [writes |-> 0, repairs |-> 0, creates |-> 0, opened |-> 0, closed |-> 0]

\* conn = sqlite3.connect(self.db_path)
Connect(cnt) == [cnt EXCEPT !.opened = @ + 1]

\* conn.close()
Close(cnt) == [cnt EXCEPT !.closed = @ + 1]

\* os.rename(db_path, backup_path) when the file exists
RenameAside(st) ==
    IF st.table.exists
    THEN [st EXCEPT !.backups = @ + 1, !.table = NoTable, !.rows = {}, !.seq = 0]
    ELSE st

RECURSIVE create_fresh_database(_, _, _, _)
RECURSIVE fix_database_and_retry(_, _, _, _, _, _)
RECURSIVE save_news(_, _, _, _, _, _)

\* d is the depth of the call; a call deeper than MaxFrames raises
\* RecursionError. The call in the except branch is not guarded: what it
\* raises leaves the function.
create_fresh_database(st, env, d, cnt) ==
    IF d > MaxFrames THEN [st |-> st, ret |-> "raise", cnt |-> cnt]
    ELSE LET c1 == [cnt EXCEPT !.creates = @ + 1]
         IN IF Fails(c1.creates, env.cfails)
            THEN IF env.ckind = "norename"
                 THEN create_fresh_database(st, env, d + 1, c1)
                 ELSE create_fresh_database(RenameAside(st), env, d + 1, Connect(c1))
            ELSE [st |-> [RenameAside(st) EXCEPT !.table = FullSchema],
                  ret |-> "ok", cnt |-> Close(Connect(c1))]

\* except Exception: return False
fix_database_and_retry(st, a, env, t, d, cnt) ==
    IF d > MaxFrames THEN [st |-> st, ret |-> "raise", cnt |-> cnt]
    ELSE LET c == create_fresh_database(st, env, d + 1, [cnt EXCEPT !.repairs = @ + 1])
         IN IF c.ret = "raise" THEN [c EXCEPT !.ret = "fail"]
            ELSE LET s == save_news(c.st, a, env, t, d + 1, c.cnt)
                 IN IF s.ret = "raise" THEN [s EXCEPT !.ret = "fail"] ELSE s

\* save_news of Agent.py. Without a table the ALTER TABLE fails ("no such
\* table") and the call returns False. An injected fault hits the INSERT,
\* after the columns were added.
save_news(st, a, env, t, d, cnt) ==
    IF d > MaxFrames THEN [st |-> st, ret |-> "raise", cnt |-> cnt]
    ELSE LET c1 == Connect([cnt EXCEPT !.writes = @ + 1])
             outcome == IF Fails(c1.writes, env.nocols) THEN "nocol"
                        ELSE IF c1.writes = env.nocols + 1 THEN env.tail ELSE "ok"
             migrated == [st EXCEPT !.table = AddMissingColumns(@)]
         IN IF ~st.table.exists THEN [st |-> st, ret |-> "fail", cnt |-> c1]
            ELSE IF outcome = "ok"
            THEN [st |-> InsertOrReplace(migrated, clean_title(a), clean_url(a),
                                         clean_content(a), clean_summary(a),
                                         clean_source(a), save_hash(a), t),
                  ret |-> "ok", cnt |-> Close(c1)]
            ELSE IF outcome = "nocol"
            THEN fix_database_and_retry(migrated, a, env, t, d + 1, c1)
            ELSE [st |-> migrated, ret |-> "fail", cnt |-> c1]

\* init_database of Agent.py; failed: an exception before any statement took
\* effect. An exception create_fresh_database raises ends the process.
init_database(st, failed, env) ==
    IF ~failed
    THEN [st |-> [st EXCEPT !.table = IF @.exists THEN AddMissingColumns(@)
                                       ELSE FullSchema],
          ret |-> "ok", cnt |-> Close(Connect(ZeroCount))]
    ELSE create_fresh_database(st, env, 2, Connect(ZeroCount))

\* init_database of AI.py: CREATE TABLE IF NOT EXISTS; an error is logged
ai_init_database(st, failed) ==
    IF failed \/ st.table.exists THEN st ELSE [st EXCEPT !.table = LegacySchema]

\* save_news of AI.py: the fields as given, no summarize, no content_hash
ai_save_news(st, a, failed, t) ==
    IF failed \/ ~st.table.exists
    THEN [st |-> st, ret |-> "fail", cnt |-> Connect(ZeroCount)]
    ELSE [st |-> InsertOrReplace(st, a.title, a.url, a.content, Null, a.source,
                                 Null, t),
          ret |-> "ok", cnt |-> Close(Connect([ZeroCount EXCEPT !.writes = 1]))]

----------------------------------------------------------------------------
(* The summary synthesizer and the trending scorer *)

\* sub in s
Contains(s, sub) ==
    \/ sub = <<>>
    \/ \E i \in 1..(Len(s) - Len(sub) + 1) :
          s[i] = sub[1] /\ SubSeq(s, i, i + Len(sub) - 1) = sub

LowerSet == {Lowers[i] : i \in 1..Len(Lowers)}
UpperMap == [c \in LowerSet |-> Uppers[CHOOSE i \in 1..Len(Lowers) : Lowers[i] = c]]

UpperChar(c) == IF c \in LowerSet THEN UpperMap[c] ELSE c

\* str.capitalize()
Capitalize(s) ==
    [i \in 1..Len(s) |-> IF i = 1 THEN UpperChar(s[i]) ELSE LowerChar(s[i])]

\* the first entry of list that occurs in one of texts, 0 if none
FirstMatch(list, texts) ==
    LET hits == {i \in 1..Len(list) :
                    \E k \in 1..Len(texts) : Contains(texts[k], list[i])}
    IN IF hits = {} THEN 0 ELSE CHOOSE i \in hits : \A j \in hits : i <= j

AnyIn(words, s) == \E i \in 1..Len(words) : Contains(s, words[i])

\* create_crispy_summary: companies
companies ==
    << <<"o", "p", "e", "n", "a", "i">>,
      <<"g", "o", "o", "g", "l", "e">>,
      <<"m", "i", "c", "r", "o", "s", "o", "f", "t">>,
      <<"m", "e", "t", "a">>,
      <<"a", "p", "p", "l", "e">>,
      <<"n", "v", "i", "d", "i", "a">>,
      <<"a", "m", "a", "z", "o", "n">>,
      <<"a", "n", "t", "h", "r", "o", "p", "i", "c">>,
      <<"d", "e", "e", "p", "m", "i", "n", "d">>,
      <<"t", "e", "s", "l", "a">>,
      <<"s", "a", "l", "e", "s", "f", "o", "r", "c", "e">> >>

\* create_crispy_summary: actions
actions ==
    << <<"a", "n", "n", "o", "u", "n", "c", "e">>,
      <<"l", "a", "u", "n", "c", "h">>,
      <<"r", "e", "l", "e", "a", "s", "e">>,
      <<"d", "e", "v", "e", "l", "o", "p">>,
      <<"c", "r", "e", "a", "t", "e">>,
      <<"i", "n", "t", "r", "o", "d", "u", "c", "e">>,
      <<"u", "n", "v", "e", "i", "l">>,
      <<"r", "e", "v", "e", "a", "l">>,
      <<"d", "e", "b", "u", "t">>,
      <<"r", "o", "l", "l", "o", "u", "t">> >>

\* create_crispy_summary: ai_topics
ai_topics ==
    << <<"a", "i">>,
      <<"a", "r", "t", "i", "f", "i", "c", "i", "a", "l", " ", "i", "n", "t", "e", "l", "l", "i", "g", "e", "n", "c", "e">>,
      <<"g", "p", "t">>,
      <<"c", "h", "a", "t", "g", "p", "t">>,
      <<"m", "a", "c", "h", "i", "n", "e", " ", "l", "e", "a", "r", "n", "i", "n", "g">>,
      <<"n", "e", "u", "r", "a", "l">>,
      <<"l", "l", "m">>,
      <<"g", "e", "n", "e", "r", "a", "t", "i", "v", "e", " ", "a", "i">>,
      <<"a", "u", "t", "o", "m", "a", "t", "i", "o", "n">>,
      <<"r", "o", "b", "o", "t", "i", "c", "s">> >>

\* a breakthrough group without its first word
BreakthroughWordsShort ==
    << <<"r", "e", "v", "o", "l", "u", "t", "i", "o", "n", "a", "r", "y">>,
      <<"g", "a", "m", "e", "-", "c", "h", "a", "n", "g", "i", "n", "g">> >>

\* the four groups of closing-sentence words
BreakthroughWords ==
    << <<"b", "r", "e", "a", "k", "t", "h", "r", "o", "u", "g", "h">>,
      <<"r", "e", "v", "o", "l", "u", "t", "i", "o", "n", "a", "r", "y">>,
      <<"g", "a", "m", "e", "-", "c", "h", "a", "n", "g", "i", "n", "g">> >>

PartnershipWords ==
    << <<"p", "a", "r", "t", "n", "e", "r", "s", "h", "i", "p">>,
      <<"c", "o", "l", "l", "a", "b", "o", "r", "a", "t", "i", "o", "n">>,
      <<"d", "e", "a", "l">> >>

FundingWords ==
    << <<"f", "u", "n", "d", "i", "n", "g">>,
      <<"i", "n", "v", "e", "s", "t", "m", "e", "n", "t">>,
      <<"r", "a", "i", "s", "e", "s">> >>

ResearchWords ==
    << <<"r", "e", "s", "e", "a", "r", "c", "h">>,
      <<"s", "t", "u", "d", "y">>,
      <<"p", "a", "p", "e", "r">> >>

\* "AI News Update"
SummaryDefaultTitle ==
    <<"A", "I", " ", "N", "e", "w", "s", " ", "U", "p", "d", "a", "t", "e">>

\* "A tech company"
TechCompany ==
    <<"A", " ", "t", "e", "c", "h", " ", "c", "o", "m", "p", "a", "n", "y">>

\* "OpenAI"
OpenAIName ==
    <<"O", "p", "e", "n", "A", "I">>

\* "DeepMind"
DeepMindName ==
    <<"D", "e", "e", "p", "M", "i", "n", "d">>

\* "introduced"
Introduced ==
    <<"i", "n", "t", "r", "o", "d", "u", "c", "e", "d">>

\* "AI technology"
AITechnology ==
    <<"A", "I", " ", "t", "e", "c", "h", "n", "o", "l", "o", "g", "y">>

\* "ChatGPT technology"
ChatGPTTechnology ==
    <<"C", "h", "a", "t", "G", "P", "T", " ", "t", "e", "c", "h", "n", "o",
     "l", "o", "g", "y">>

\* "machine learning capabilities"
MLCapabilities ==
    <<"m", "a", "c", "h", "i", "n", "e", " ", "l", "e", "a", "r", "n", "i",
     "n", "g", " ", "c", "a", "p", "a", "b", "i", "l", "i", "t", "i", "e",
     "s">>

\* "robotics technology"
RoboticsTechnology ==
    <<"r", "o", "b", "o", "t", "i", "c", "s", " ", "t", "e", "c", "h", "n",
     "o", "l", "o", "g", "y">>

\* "automation solutions"
AutomationSolutions ==
    <<"a", "u", "t", "o", "m", "a", "t", "i", "o", "n", " ", "s", "o", "l",
     "u", "t", "i", "o", "n", "s">>

\* "This breakthrough could transform the tech industry."
BreakthroughClosing ==
    <<"T", "h", "i", "s", " ", "b", "r", "e", "a", "k", "t", "h", "r", "o",
     "u", "g", "h", " ", "c", "o", "u", "l", "d", " ", "t", "r", "a", "n",
     "s", "f", "o", "r", "m", " ", "t", "h", "e", " ", "t", "e", "c", "h",
     " ", "i", "n", "d", "u", "s", "t", "r", "y", ".">>

\* "This partnership accelerates AI development progress."
PartnershipClosing ==
    <<"T", "h", "i", "s", " ", "p", "a", "r", "t", "n", "e", "r", "s", "h",
     "i", "p", " ", "a", "c", "c", "e", "l", "e", "r", "a", "t", "e", "s",
     " ", "A", "I", " ", "d", "e", "v", "e", "l", "o", "p", "m", "e", "n",
     "t", " ", "p", "r", "o", "g", "r", "e", "s", "s", ".">>

\* "This investment signals strong market confidence in AI."
FundingClosing ==
    <<"T", "h", "i", "s", " ", "i", "n", "v", "e", "s", "t", "m", "e", "n",
     "t", " ", "s", "i", "g", "n", "a", "l", "s", " ", "s", "t", "r", "o",
     "n", "g", " ", "m", "a", "r", "k", "e", "t", " ", "c", "o", "n", "f",
     "i", "d", "e", "n", "c", "e", " ", "i", "n", " ", "A", "I", ".">>

\* "This research advances our understanding of AI capabilities."
ResearchClosing ==
    <<"T", "h", "i", "s", " ", "r", "e", "s", "e", "a", "r", "c", "h", " ",
     "a", "d", "v", "a", "n", "c", "e", "s", " ", "o", "u", "r", " ", "u",
     "n", "d", "e", "r", "s", "t", "a", "n", "d", "i", "n", "g", " ", "o",
     "f", " ", "A", "I", " ", "c", "a", "p", "a", "b", "i", "l", "i", "t",
     "i", "e", "s", ".">>

\* "This development marks continued innovation in artificial intelligence."
GenericClosing ==
    <<"T", "h", "i", "s", " ", "d", "e", "v", "e", "l", "o", "p", "m", "e",
     "n", "t", " ", "m", "a", "r", "k", "s", " ", "c", "o", "n", "t", "i",
     "n", "u", "e", "d", " ", "i", "n", "n", "o", "v", "a", "t", "i", "o",
     "n", " ", "i", "n", " ", "a", "r", "t", "i", "f", "i", "c", "i", "a",
     "l", " ", "i", "n", "t", "e", "l", "l", "i", "g", "e", "n", "c", "e",
     ".">>

\* " has "
Has ==
    <<" ", "h", "a", "s", " ">>

\* " new "
New ==
    <<" ", "n", "e", "w", " ">>

\* ". "
Stop ==
    <<".", " ">>

\* "..."
Ellipsis3 ==
    <<".", ".", ".">>

SummaryMaxLen == 200

\* create_crispy_summary; nothing in it raises on strings, so the except
\* branch is never taken
create_crispy_summary(title0, content) ==
    LET title == IF title0 = <<>> THEN SummaryDefaultTitle ELSE title0
        title_lower == Lower(title)
        content_lower == Lower(content)
        ci == FirstMatch(companies, <<title_lower, content_lower>>)
        company == IF ci = 0 THEN TechCompany
                   ELSE IF companies[ci] = Lower(OpenAIName) THEN OpenAIName
                   ELSE IF companies[ci] = Lower(DeepMindName) THEN DeepMindName
                   ELSE Capitalize(companies[ci])
        ai == FirstMatch(actions, <<title_lower>>)
        action == IF ai = 0 THEN Introduced
                  ELSE IF actions[ai][Len(actions[ai])] = "e"
                       THEN actions[ai] \o <<"d">>
                       ELSE actions[ai] \o <<"e", "d">>
        ti == FirstMatch(ai_topics, <<title_lower, content_lower>>)
        topic == IF ti = 0 THEN AITechnology
                 ELSE IF Contains(ai_topics[ti], <<"g", "p", "t">>)
                      THEN ChatGPTTechnology
                 ELSE IF Contains(ai_topics[ti], ai_topics[5]) THEN MLCapabilities
                 ELSE IF Contains(ai_topics[ti], ai_topics[10]) THEN RoboticsTechnology
                 ELSE IF Contains(ai_topics[ti], ai_topics[9]) THEN AutomationSolutions
                 ELSE AITechnology
        closing == IF AnyIn(BreakthroughWords, title_lower) THEN BreakthroughClosing
                   ELSE IF AnyIn(PartnershipWords, title_lower) THEN PartnershipClosing
                   ELSE IF AnyIn(FundingWords, title_lower) THEN FundingClosing
                   ELSE IF AnyIn(ResearchWords, title_lower) THEN ResearchClosing
                   ELSE GenericClosing
        summary == company \o Has \o action \o New \o topic \o Stop \o closing
    IN IF Len(summary) > SummaryMaxLen
       THEN Prefix(summary, SummaryMaxLen) \o Ellipsis3
       ELSE summary

\* calculate_trending_score: trending_keywords
trending_keywords ==
    << <<"b", "r", "e", "a", "k", "i", "n", "g">>,
      <<"j", "u", "s", "t", " ", "i", "n">>,
      <<"l", "a", "t", "e", "s", "t">>,
      <<"n", "e", "w">>,
      <<"a", "n", "n", "o", "u", "n", "c", "e", "s">>,
      <<"l", "a", "u", "n", "c", "h", "e", "s">>,
      <<"t", "o", "d", "a", "y">>,
      <<"t", "h", "i", "s", " ", "w", "e", "e", "k">>,
      <<"n", "o", "w">>,
      <<"u", "p", "d", "a", "t", "e">>,
      <<"d", "e", "v", "e", "l", "o", "p", "m", "e", "n", "t">>,
      <<"b", "r", "e", "a", "k", "t", "h", "r", "o", "u", "g", "h">>,
      <<"m", "a", "j", "o", "r">>,
      <<"r", "e", "v", "o", "l", "u", "t", "i", "o", "n", "a", "r", "y">>,
      <<"g", "a", "m", "e", "-", "c", "h", "a", "n", "g", "i", "n", "g">> >>

\* calculate_trending_score: ai_companies
ai_companies ==
    << <<"o", "p", "e", "n", "a", "i">>,
      <<"g", "o", "o", "g", "l", "e">>,
      <<"m", "i", "c", "r", "o", "s", "o", "f", "t">>,
      <<"m", "e", "t", "a">>,
      <<"a", "p", "p", "l", "e">>,
      <<"n", "v", "i", "d", "i", "a">>,
      <<"a", "n", "t", "h", "r", "o", "p", "i", "c">>,
      <<"d", "e", "e", "p", "m", "i", "n", "d">>,
      <<"h", "u", "g", "g", "i", "n", "g", " ", "f", "a", "c", "e">>,
      <<"s", "t", "a", "b", "i", "l", "i", "t", "y", " ", "a", "i">> >>

\* calculate_trending_score: hot_topics
hot_topics ==
    << <<"g", "p", "t">>,
      <<"c", "h", "a", "t", "g", "p", "t">>,
      <<"c", "l", "a", "u", "d", "e">>,
      <<"g", "e", "m", "i", "n", "i">>,
      <<"l", "l", "a", "m", "a">>,
      <<"c", "o", "p", "i", "l", "o", "t">>,
      <<"a", "g", "i">>,
      <<"a", "u", "t", "o", "n", "o", "m", "o", "u", "s">>,
      <<"r", "o", "b", "o", "t", "i", "c", "s">>,
      <<"a", "i", " ", "s", "a", "f", "e", "t", "y">>,
      <<"r", "e", "g", "u", "l", "a", "t", "i", "o", "n">> >>

\* "techcrunch"
TechCrunchLower ==
    <<"t", "e", "c", "h", "c", "r", "u", "n", "c", "h">>

\* "google news"
GoogleNewsLower ==
    <<"g", "o", "o", "g", "l", "e", " ", "n", "e", "w", "s">>

TrendingPoints == 20
CompanyPoints == 15
TopicPoints == 10
TechCrunchBonus == 10
GoogleNewsBonus == 15

\* a count of the places where a word of words occurs in s
MatchesPerOccurrence(words, s) ==
    Cardinality({<<i, p>> \in (1..Len(words)) \X (1..Len(s)) :
                    /\ p + Len(words[i]) - 1 <= Len(s)
                    /\ SubSeq(s, p, p + Len(words[i]) - 1) = words[i]})

\* for keyword in words: if keyword in s: one match
Matches(words, s) == Cardinality({i \in 1..Len(words) : Contains(s, words[i])})

\* calculate_trending_score
calculate_trending_score(article) ==
    LET title == Lower(article.title)
        source == Lower(article.source)
    IN TrendingPoints * Matches(trending_keywords, title)
       + CompanyPoints * Matches(ai_companies, title)
       + TopicPoints * Matches(hot_topics, title)
       + (IF Contains(source, TechCrunchLower) THEN TechCrunchBonus
          ELSE IF Contains(source, GoogleNewsLower) THEN GoogleNewsBonus
          ELSE 0)

----------------------------------------------------------------------------
(* The store operations as steps of the model *)

Titles == {<<>>, <<"a">>, <<"b">>}
Urls == {<<"u">>, <<"v">>}
Contents == {<<>>, <<"c">>}

Articles ==
    {[title |-> t, url |-> u, content |-> c, summarize |-> <<>>, source |-> <<>>] :
        t \in Titles, u \in Urls, c \in Contents}

NoArticle ==
    [title |-> <<>>, url |-> <<>>, content |-> <<>>, summarize |-> <<>>,
     source |-> <<>>]

FaultCounts == (0..MaxFaults) \cup {Forever}

CreateEnvs ==
    {[nocols |-> 0, tail |-> "ok", cfails |-> n, ckind |-> k] :
        n \in FaultCounts, k \in {"norename", "nocreate"}}

SaveEnvs ==
    {e \in [nocols : FaultCounts, tail : {"ok", "operr", "exc"},
            cfails : FaultCounts, ckind : {"norename", "nocreate"}] :
        /\ e.nocols = 0 => e.cfails = 0
        /\ e.cfails = 0 => e.ckind = "nocreate"
        /\ e.nocols = Forever => e.tail = "ok"}

Store == [table |-> table, rows |-> rows, seq |-> seq, backups |-> backups]

NoOp ==
    [op |-> "none", prog |-> "none", ret |-> "ok", a |-> NoArticle, pre |-> {},
     preTable |-> NoTable, preBackups |-> 0, cnt |-> ZeroCount]

SetStore(st) ==
    /\ table' = st.table /\ rows' = st.rows /\ seq' = st.seq
    /\ backups' = st.backups

Observe(op, who, a, r) ==
    last' = [op |-> op, prog |-> who, ret |-> r.ret, a |-> a, pre |-> rows,
             preTable |-> table, preBackups |-> backups, cnt |-> r.cnt]

NoText == <<"<none>">>

IdleCalls == args = <<>> /\ res = <<>>

IdleBench ==
    text = <<>> /\ edits = 0 /\ out1 = NoText /\ out2 = NoText /\ IdleCalls

Idle == pc = "idle" /\ ops < MaxOps

\* python Agent.py: db = SimpleNewsDB()
AgentBoot ==
    /\ Idle
    /\ \E failed \in BOOLEAN, env \in CreateEnvs :
          /\ ~failed => env = [NoFaults EXCEPT !.ckind = "norename"]
          /\ LET r == init_database(Store, failed, env)
             IN /\ SetStore(r.st)
                /\ prog' = IF r.ret = "raise" THEN "none" ELSE "agent"
                /\ Observe("init", "agent", NoArticle, r)
    /\ ops' = ops + 1
    /\ UNCHANGED <<now, runVars, benchVars>>

\* python AI.py: db = SimpleNewsDB()
AIBoot ==
    /\ Idle
    /\ \E failed \in BOOLEAN :
          LET st == ai_init_database(Store, failed)
          IN /\ SetStore(st)
             /\ Observe("init", "ai", NoArticle,
                        [ret |-> IF failed THEN "fail" ELSE "ok",
                         cnt |-> IF failed THEN Connect(ZeroCount)
                                 ELSE Close(Connect(ZeroCount))])
    /\ prog' = "ai"
    /\ ops' = ops + 1
    /\ UNCHANGED <<now, runVars, benchVars>>

\* db.save_news(...) of Agent.py
AgentSave ==
    /\ Idle /\ prog = "agent"
    /\ \E a \in Articles, env \in SaveEnvs :
          LET r == save_news(Store, a, env, now, 1, ZeroCount)
          IN SetStore(r.st) /\ Observe("save", "agent", a, r)
    /\ ops' = ops + 1
    /\ UNCHANGED <<now, prog, runVars, benchVars>>

\* db.save_news(...) of AI.py
AISave ==
    /\ Idle /\ prog = "ai"
    /\ \E a \in Articles, failed \in BOOLEAN :
          LET r == ai_save_news(Store, a, failed, now)
          IN SetStore(r.st) /\ Observe("save", "ai", a, r)
    /\ ops' = ops + 1
    /\ UNCHANGED <<now, prog, runVars, benchVars>>

Tick ==
    /\ now < MaxClock
    /\ now' = now + 1
    /\ UNCHANGED <<table, rows, seq, backups, ops, prog, last, runVars, benchVars>>

----------------------------------------------------------------------------
(* The discovery pipelines *)

\* the names of AI_NEWS_SOURCES (Agent.py), in order
AI_NEWS_SOURCES ==
    << <<"T", "e", "c", "h", "C", "r", "u", "n", "c", "h", " ", "A", "I">>,
      <<"T", "h", "e", " ", "V", "e", "r", "g", "e", " ", "A", "I">>,
      <<"V", "e", "n", "t", "u", "r", "e", "B", "e", "a", "t", " ", "A", "I">>,
      <<"A", "I", " ", "N", "e", "w", "s">>,
      <<"M", "I", "T", " ", "T", "e", "c", "h", " ", "R", "e", "v", "i", "e", "w", " ", "A", "I">>,
      <<"G", "o", "o", "g", "l", "e", " ", "A", "I", " ", "S", "e", "a", "r", "c", "h">>,
      <<"B", "i", "n", "g", " ", "A", "I", " ", "N", "e", "w", "s">> >>

\* the names of trending_sources (AI.py), in order
trending_sources ==
    << <<"G", "o", "o", "g", "l", "e", " ", "N", "e", "w", "s", " ", "-", " ", "A", "I", " ", "T", "r", "e", "n", "d", "i", "n", "g">>,
      <<"T", "e", "c", "h", "C", "r", "u", "n", "c", "h", " ", "A", "I", " ", "-", " ", "L", "a", "t", "e", "s", "t">>,
      <<"G", "o", "o", "g", "l", "e", " ", "S", "e", "a", "r", "c", "h", " ", "-", " ", "T", "o", "d", "a", "y", "'", "s", " ", "A", "I", " ", "N", "e", "w", "s">> >>

\* the source label each extractor of AI.py gives its article
ExtractorLabel ==
    << <<"G", "o", "o", "g", "l", "e", " ", "N", "e", "w", "s">>,
      <<"T", "e", "c", "h", "C", "r", "u", "n", "c", "h">>,
      <<"G", "o", "o", "g", "l", "e", " ", "S", "e", "a", "r", "c", "h">> >>

\* "AI Technology Update - "
TimeBasedTitle ==
    <<"A", "I", " ", "T", "e", "c", "h", "n", "o", "l", "o", "g", "y", " ",
     "U", "p", "d", "a", "t", "e", " ", "-", " ">>

\* "https://ai-update.com/"
TimeBasedUrl ==
    <<"h", "t", "t", "p", "s", ":", "/", "/", "a", "i", "-", "u", "p", "d",
     "a", "t", "e", ".", "c", "o", "m", "/">>

\* "AI Update Service"
UpdateService ==
    <<"A", "I", " ", "U", "p", "d", "a", "t", "e", " ", "S", "e", "r", "v",
     "i", "c", "e">>

\* "AI Industry Update - "
FallbackTitle ==
    <<"A", "I", " ", "I", "n", "d", "u", "s", "t", "r", "y", " ", "U", "p",
     "d", "a", "t", "e", " ", "-", " ">>

\* "https://ai-update.com/fallback/"
FallbackUrl ==
    <<"h", "t", "t", "p", "s", ":", "/", "/", "a", "i", "-", "u", "p", "d",
     "a", "t", "e", ".", "c", "o", "m", "/", "f", "a", "l", "l", "b", "a",
     "c", "k", "/">>

\* "AI industry shows continued growth with new developments in machine learning and practical applications. This progress represents ongoing innovation in artificial intelligence technology."
FallbackSummary ==
    <<"A", "I", " ", "i", "n", "d", "u", "s", "t", "r", "y", " ", "s", "h",
     "o", "w", "s", " ", "c", "o", "n", "t", "i", "n", "u", "e", "d", " ",
     "g", "r", "o", "w", "t", "h", " ", "w", "i", "t", "h", " ", "n", "e",
     "w", " ", "d", "e", "v", "e", "l", "o", "p", "m", "e", "n", "t", "s",
     " ", "i", "n", " ", "m", "a", "c", "h", "i", "n", "e", " ", "l", "e",
     "a", "r", "n", "i", "n", "g", " ", "a", "n", "d", " ", "p", "r", "a",
     "c", "t", "i", "c", "a", "l", " ", "a", "p", "p", "l", "i", "c", "a",
     "t", "i", "o", "n", "s", ".", " ", "T", "h", "i", "s", " ", "p", "r",
     "o", "g", "r", "e", "s", "s", " ", "r", "e", "p", "r", "e", "s", "e",
     "n", "t", "s", " ", "o", "n", "g", "o", "i", "n", "g", " ", "i", "n",
     "n", "o", "v", "a", "t", "i", "o", "n", " ", "i", "n", " ", "a", "r",
     "t", "i", "f", "i", "c", "i", "a", "l", " ", "i", "n", "t", "e", "l",
     "l", "i", "g", "e", "n", "c", "e", " ", "t", "e", "c", "h", "n", "o",
     "l", "o", "g", "y", ".">>

\* "Content extraction failed"
ExtractionFailed ==
    <<"C", "o", "n", "t", "e", "n", "t", " ", "e", "x", "t", "r", "a", "c",
     "t", "i", "o", "n", " ", "f", "a", "i", "l", "e", "d">>

\* "Unknown"
UnknownHost ==
    <<"U", "n", "k", "n", "o", "w", "n">>

\* "Fresh AI news from "
FreshFrom ==
    <<"F", "r", "e", "s", "h", " ", "A", "I", " ", "n", "e", "w", "s", " ",
     "f", "r", "o", "m", " ">>

\* ". This article discusses the latest developments in artificial intelligence technology, including new breakthroughs in machine learning, natural language processing, and AI applications across various industries."
FreshRest ==
    <<".", " ", "T", "h", "i", "s", " ", "a", "r", "t", "i", "c", "l", "e",
     " ", "d", "i", "s", "c", "u", "s", "s", "e", "s", " ", "t", "h", "e",
     " ", "l", "a", "t", "e", "s", "t", " ", "d", "e", "v", "e", "l", "o",
     "p", "m", "e", "n", "t", "s", " ", "i", "n", " ", "a", "r", "t", "i",
     "f", "i", "c", "i", "a", "l", " ", "i", "n", "t", "e", "l", "l", "i",
     "g", "e", "n", "c", "e", " ", "t", "e", "c", "h", "n", "o", "l", "o",
     "g", "y", ",", " ", "i", "n", "c", "l", "u", "d", "i", "n", "g", " ",
     "n", "e", "w", " ", "b", "r", "e", "a", "k", "t", "h", "r", "o", "u",
     "g", "h", "s", " ", "i", "n", " ", "m", "a", "c", "h", "i", "n", "e",
     " ", "l", "e", "a", "r", "n", "i", "n", "g", ",", " ", "n", "a", "t",
     "u", "r", "a", "l", " ", "l", "a", "n", "g", "u", "a", "g", "e", " ",
     "p", "r", "o", "c", "e", "s", "s", "i", "n", "g", ",", " ", "a", "n",
     "d", " ", "A", "I", " ", "a", "p", "p", "l", "i", "c", "a", "t", "i",
     "o", "n", "s", " ", "a", "c", "r", "o", "s", "s", " ", "v", "a", "r",
     "i", "o", "u", "s", " ", "i", "n", "d", "u", "s", "t", "r", "i", "e",
     "s", ".">>

\* "Trending AI article from "
TrendingFrom ==
    <<"T", "r", "e", "n", "d", "i", "n", "g", " ", "A", "I", " ", "a", "r",
     "t", "i", "c", "l", "e", " ", "f", "r", "o", "m", " ">>

\* ". Full content extraction failed."
TrendingRest ==
    <<".", " ", "F", "u", "l", "l", " ", "c", "o", "n", "t", "e", "n", "t",
     " ", "e", "x", "t", "r", "a", "c", "t", "i", "o", "n", " ", "f", "a",
     "i", "l", "e", "d", ".">>

\* fallback_content as written: six indented lines between two line breaks
FallbackContent ==
    <<"LF", " ", " ", " ", " ", "T", "h", "e", " ", "A", "I", " ", "i", "n",
      "d", "u", "s", "t", "r", "y", " ", "c", "o", "n", "t", "i", "n", "u",
      "e", "s", " ", "t", "o", " ", "e", "v", "o", "l", "v", "e", " ", "r",
      "a", "p", "i", "d", "l", "y", " ", "w", "i", "t", "h", " ", "n", "e",
      "w", " ", "d", "e", "v", "e", "l", "o", "p", "m", "e", "n", "t", "s",
      " ", "a", "c", "r", "o", "s", "s", " ", "m", "u", "l", "t", "i", "p",
      "l", "e", " ", "s", "e", "c", "t", "o", "r", "s", ".", " ", "LF", " ",
      " ", " ", " ", "T", "o", "d", "a", "y", "'", "s", " ", "h", "i", "g",
      "h", "l", "i", "g", "h", "t", "s", " ", "i", "n", "c", "l", "u", "d",
      "e", " ", "o", "n", "g", "o", "i", "n", "g", " ", "r", "e", "s", "e",
      "a", "r", "c", "h", " ", "i", "n", " ", "l", "a", "r", "g", "e", " ",
      "l", "a", "n", "g", "u", "a", "g", "e", " ", "m", "o", "d", "e", "l",
      "s", ",", " ", "c", "o", "m", "p", "u", "t", "e", "r", " ", "v", "i",
      "s", "i", "o", "n", " ", "b", "r", "e", "a", "k", "t", "h", "r", "o",
      "u", "g", "h", "s", ",", " ", "LF", " ", " ", " ", " ", "a", "n", "d",
      " ", "p", "r", "a", "c", "t", "i", "c", "a", "l", " ", "A", "I", " ",
      "a", "p", "p", "l", "i", "c", "a", "t", "i", "o", "n", "s", " ", "i",
      "n", " ", "h", "e", "a", "l", "t", "h", "c", "a", "r", "e", ",", " ",
      "f", "i", "n", "a", "n", "c", "e", ",", " ", "a", "n", "d", " ", "e",
      "d", "u", "c", "a", "t", "i", "o", "n", ".", " ", "M", "a", "j", "o",
      "r", " ", "t", "e", "c", "h", " ", "c", "o", "m", "p", "a", "n", "i",
      "e", "s", " ", "a", "r", "e", " ", "LF", " ", " ", " ", " ", "i", "n",
      "v", "e", "s", "t", "i", "n", "g", " ", "h", "e", "a", "v", "i", "l",
      "y", " ", "i", "n", " ", "A", "I", " ", "i", "n", "f", "r", "a", "s",
      "t", "r", "u", "c", "t", "u", "r", "e", " ", "a", "n", "d", " ", "t",
      "a", "l", "e", "n", "t", " ", "a", "c", "q", "u", "i", "s", "i", "t",
      "i", "o", "n", ".", " ", "T", "h", "e", " ", "f", "o", "c", "u", "s",
      " ", "r", "e", "m", "a", "i", "n", "s", " ", "o", "n", " ", "d", "e",
      "v", "e", "l", "o", "p", "i", "n", "g", " ", "LF", " ", " ", " ", " ",
      "m", "o", "r", "e", " ", "e", "f", "f", "i", "c", "i", "e", "n", "t",
      ",", " ", "s", "a", "f", "e", "r", ",", " ", "a", "n", "d", " ", "m",
      "o", "r", "e", " ", "c", "a", "p", "a", "b", "l", "e", " ", "A", "I",
      " ", "s", "y", "s", "t", "e", "m", "s", " ", "t", "h", "a", "t", " ",
      "c", "a", "n", " ", "b", "e", "n", "e", "f", "i", "t", " ", "s", "o",
      "c", "i", "e", "t", "y", " ", "w", "h", "i", "l", "e", " ", "a", "d",
      "d", "r", "e", "s", "s", "i", "n", "g", " ", "LF", " ", " ", " ", " ",
      "e", "t", "h", "i", "c", "a", "l", " ", "c", "o", "n", "s", "i", "d",
      "e", "r", "a", "t", "i", "o", "n", "s", " ", "a", "n", "d", " ", "r",
      "e", "g", "u", "l", "a", "t", "o", "r", "y", " ", "r", "e", "q", "u",
      "i", "r", "e", "m", "e", "n", "t", "s", ".", "LF", " ", " ", " ", " ">>

ContentCut == 3000
FreshEnough == 3
NumSources == Len(AI_NEWS_SOURCES)
NumTrending == Len(trending_sources)

Digits == <<"0", "1", "2", "3", "4", "5", "6", "7", "8", "9">>

\* strftime of the clock: one digit stands for the date and the minute
DateText(t) == <<Digits[t + 1]>>

NoCand ==
    [title |-> <<>>, url |-> <<>>, source_name |-> <<>>, source |-> <<>>, score |-> 0]

NoRun ==
    [variant |-> "none", done |-> FALSE, allFailed |-> TRUE, probes |-> <<>>,
     timeBased |-> FALSE, fallback |-> FALSE, sel |-> NoCand, content |-> <<>>,
     source |-> <<>>, fetch |-> "none", calls |-> 0, saves |-> 0, written |-> <<>>,
     cands |-> <<>>]

\* what the page fetcher can return
FreshCand1 == [title |-> <<"a">>, url |-> <<"u">>]
FreshCand2 == [title |-> <<"b">>, url |-> <<"v">>]

Listings ==
    {<<>>, <<FreshCand1>>, <<FreshCand2, FreshCand1>>,
     <<FreshCand1, FreshCand2, FreshCand1, FreshCand2>>}

PageContent == <<"c">>
PageHost == <<"h">>

\* "OpenAI update"
TrendTitle1 ==
    <<"O", "p", "e", "n", "A", "I", " ", "u", "p", "d", "a", "t", "e">>

\* "AI news now"
TrendTitle2 ==
    <<"A", "I", " ", "n", "e", "w", "s", " ", "n", "o", "w">>

TrendCands ==
    {[title |-> TrendTitle1, url |-> <<"u">>], [title |-> TrendTitle2, url |-> <<"v">>]}

\* the faults a save of a pipeline run meets
RunEnvs == {e \in SaveEnvs : e.cfails = 0 /\ e.nocols \in {0, 1}}

\* the loop over the articles of one source: a title is_duplicate does not
\* know is appended; the loop ends once three are held
RECURSIVE Accumulate(_, _, _, _, _)
Accumulate(acc, articles, name, tb, rs) ==
    IF articles = <<>> THEN acc
    ELSE LET a == Head(articles)
             acc1 == IF ~is_duplicate(tb, rs, a.title, <<>>)
                     THEN Append(acc, [title |-> a.title, url |-> a.url,
                                       source_name |-> name, source |-> <<>>,
                                       score |-> 0])
                     ELSE acc
         IN IF Len(acc1) >= FreshEnough THEN acc1
            ELSE Accumulate(acc1, Tail(articles), name, tb, rs)

\* the time-based article made when no source gave a fresh one
TimeBasedArticle(t) ==
    [title |-> TimeBasedTitle \o DateText(t), url |-> TimeBasedUrl \o DateText(t),
     source_name |-> UpdateService, source |-> <<>>, score |-> 0]

\* create_fallback_article: one more save_news
create_fallback_article(st, env, t) ==
    save_news(st,
              [title |-> FallbackTitle \o DateText(t),
               url |-> FallbackUrl \o DateText(t),
               content |-> Strip(FallbackContent),
               summarize |-> FallbackSummary,
               source |-> UpdateService],
              env, t, 1, ZeroCount)

FallbackArticleOf(t) ==
    [title |-> FallbackTitle \o DateText(t), url |-> FallbackUrl \o DateText(t),
     content |-> Strip(FallbackContent), summarize |-> FallbackSummary,
     source |-> UpdateService]

\* the run's record of a save_news call
Saved(rn, a, r, cleaned) ==
    [rn EXCEPT !.calls = @ + 1,
               !.saves = IF r.ret = "ok" THEN @ + 1 ELSE @,
               !.written = IF r.ret = "ok"
                           THEN Append(@, IF cleaned
                                          THEN [title |-> clean_title(a), url |-> clean_url(a)]
                                          ELSE [title |-> a.title, url |-> a.url])
                           ELSE @]

\* a for statement that takes every second source of the n
NextPassSkip(i, n) == IF i >= n - 1 THEN 0 ELSE i + 2

\* the for statement over the n sources, after the pass over source i: the
\* source of the next pass, 0 when the sources are exhausted
NextPass(i, n) == IF i = n THEN 0 ELSE i + 1

\* a loop that goes on until three articles are held
BreakLoopAtThree(found_articles) == Len(found_articles) >= FreshEnough

\* if len(found_articles) >= 1: break
BreakLoop(found_articles) == Len(found_articles) >= 1

\* search_fresh_ai_news, up to the loop; a failing browser launch is caught by
\* the outer except, which calls create_fallback_article
FreshStart ==
    /\ pc = "idle" /\ runs < MaxRuns /\ prog = "agent"
    /\ \E launched \in BOOLEAN, env \in RunEnvs :
          IF launched
          THEN /\ env = NoFaults
               /\ pc' = "probing" /\ srcIdx' = 1 /\ found' = <<>>
               /\ run' = [NoRun EXCEPT !.variant = "fresh"]
               /\ UNCHANGED <<table, rows, seq, backups, last>>
          ELSE LET a == FallbackArticleOf(now)
                   r == create_fallback_article(Store, env, now)
               IN /\ SetStore(r.st) /\ Observe("save", "agent", a, r)
                  /\ run' = [Saved([NoRun EXCEPT !.variant = "fresh"], a, r, TRUE)
                                EXCEPT !.done = TRUE, !.fallback = TRUE,
                                       !.allFailed = FALSE]
                  /\ UNCHANGED <<pc, srcIdx, found>>
    /\ runs' = runs + 1
    /\ UNCHANGED <<now, ops, prog, benchVars>>

\* one pass of the loop over AI_NEWS_SOURCES: extract_articles_from_source
\* returns the listing, or [] when anything in it fails
FreshProbe ==
    /\ pc = "probing"
    /\ \E listing \in Listings :
          LET got == Accumulate(found, listing, AI_NEWS_SOURCES[srcIdx], table, rows)
          IN /\ found' = got
             /\ run' = [run EXCEPT !.probes = Append(@, srcIdx),
                                   !.allFailed = @ /\ listing = <<>>]
             /\ IF BreakLoop(got) \/ NextPass(srcIdx, NumSources) = 0
                THEN pc' = "fetch" /\ srcIdx' = srcIdx
                ELSE pc' = "probing" /\ srcIdx' = NextPass(srcIdx, NumSources)
    /\ UNCHANGED <<runs, storeVars, benchVars>>

\* the selection and get_article_content: the page content and its host, the
\* fixed pair the function returns when it fails inside, or the substitute
\* of the caller's bare except when it is left by an exception
FreshFetch ==
    /\ pc = "fetch"
    /\ LET held == IF found = <<>> THEN <<TimeBasedArticle(now)>> ELSE found
           selected_article == held[1]
       IN /\ found' = held
          /\ \E outcome \in {"ok", "failed", "raised"} :
                LET content == CASE outcome = "ok" -> PageContent
                                 [] outcome = "failed" -> ExtractionFailed
                                 [] outcome = "raised" ->
                                      FreshFrom \o selected_article.source_name \o FreshRest
                    source == CASE outcome = "ok" -> PageHost
                                [] outcome = "failed" -> UnknownHost
                                [] outcome = "raised" -> selected_article.source_name
                IN run' = [run EXCEPT !.sel = selected_article,
                                      !.timeBased = (found = <<>>),
                                      !.fetch = outcome,
                                      !.content = Prefix(clean_text_for_db(content), ContentCut),
                                      !.source = source]
    /\ pc' = "save"
    /\ UNCHANGED <<srcIdx, runs, storeVars, benchVars>>

\* create_crispy_summary and db.save_news
FreshSave ==
    /\ pc = "save"
    /\ LET summary == create_crispy_summary(run.sel.title, run.content)
           a == [title |-> run.sel.title, url |-> run.sel.url,
                 content |-> run.content, summarize |-> summary,
                 source |-> run.source]
       IN \E env \in RunEnvs :
             LET r == save_news(Store, a, env, now, 1, ZeroCount)
             IN /\ SetStore(r.st) /\ Observe("save", "agent", a, r)
                /\ run' = Saved(run, a, r, TRUE)
    /\ pc' = "close"
    /\ UNCHANGED <<now, ops, prog, srcIdx, found, runs, benchVars>>

\* human_delay and browser.close(); an exception in them is caught by the
\* outer except, which calls create_fallback_article
FreshClose ==
    /\ pc = "close"
    /\ \E closed \in BOOLEAN, env \in RunEnvs :
          IF closed
          THEN /\ env = NoFaults
               /\ run' = [run EXCEPT !.done = TRUE]
               /\ UNCHANGED <<table, rows, seq, backups, last>>
          ELSE LET a == FallbackArticleOf(now)
                   r == create_fallback_article(Store, env, now)
               IN /\ SetStore(r.st) /\ Observe("save", "agent", a, r)
                  /\ run' = [Saved(run, a, r, TRUE) EXCEPT !.done = TRUE,
                                                          !.fallback = TRUE]
    /\ pc' = "idle"
    /\ UNCHANGED <<now, ops, prog, srcIdx, found, runs, benchVars>>

\* search_trending_ai_news, up to the loop; a failing browser launch is
\* caught by the outer except, which prints
TrendStart ==
    /\ pc = "idle" /\ runs < MaxRuns /\ prog = "ai"
    /\ \E launched \in BOOLEAN :
          IF launched
          THEN /\ pc' = "tprobing" /\ srcIdx' = 1 /\ found' = <<>>
               /\ run' = [NoRun EXCEPT !.variant = "trending"]
          ELSE /\ run' = [NoRun EXCEPT !.variant = "trending", !.done = TRUE,
                                       !.allFailed = FALSE]
               /\ UNCHANGED <<pc, srcIdx, found>>
    /\ runs' = runs + 1
    /\ UNCHANGED <<table, rows, seq, backups, now, ops, prog, last, benchVars>>

\* a best article that replaces the held one only on an equal or higher score
ReplacesOnTie(article, best) ==
    best = <<>> \/ article.score >= best[1].score

\* if not best_article or article['trending_score'] > best_article['trending_score']
Replaces(article, best) ==
    best = <<>> \/ article.score > best[1].score

\* one pass of the loop over trending_sources: the page load fails, the
\* extractor returns None, or it returns an article; cands is the history of
\* the articles scored in the run
TrendProbe ==
    /\ pc = "tprobing"
    /\ \E c \in TrendCands, outcome \in {"fail", "none", "article"} :
          LET article == [title |-> c.title, url |-> c.url,
                          source_name |-> trending_sources[srcIdx],
                          source |-> ExtractorLabel[srcIdx], score |-> 0]
              scored == [article EXCEPT !.score = calculate_trending_score(article)]
          IN /\ outcome # "article" => c = CHOOSE x \in TrendCands : TRUE
             /\ found' = IF outcome # "article" THEN found
                         ELSE IF Replaces(scored, found) THEN <<scored>>
                         ELSE found
             /\ run' = [run EXCEPT !.probes = Append(@, srcIdx),
                                   !.allFailed = @ /\ outcome # "article",
                                   !.cands = IF outcome = "article"
                                             THEN Append(@, scored) ELSE @]
    /\ IF NextPass(srcIdx, NumTrending) = 0
       THEN pc' = "tfetch" /\ srcIdx' = srcIdx
       ELSE pc' = "tprobing" /\ srcIdx' = NextPass(srcIdx, NumTrending)
    /\ UNCHANGED <<runs, storeVars, benchVars>>

\* without a best article the run ends here; else get_full_article_content,
\* which catches its own failure and writes the fixed content
TrendFetch ==
    /\ pc = "tfetch"
    /\ IF found = <<>>
       THEN /\ run' = [run EXCEPT !.done = TRUE]
            /\ pc' = "idle"
       ELSE /\ \E outcome \in {"ok", "failed"} :
                  run' = [run EXCEPT
                             !.sel = found[1],
                             !.fetch = outcome,
                             !.content = IF outcome = "ok"
                                         THEN (IF Len(PageContent) > ContentCut
                                               THEN Prefix(PageContent, ContentCut) \o Ellipsis3
                                               ELSE PageContent)
                                         ELSE TrendingFrom \o found[1].source \o TrendingRest,
                             !.source = IF outcome = "ok" THEN PageHost
                                        ELSE found[1].source]
            /\ pc' = "tsave"
    /\ UNCHANGED <<srcIdx, found, runs, storeVars, benchVars>>

\* db.save_news of AI.py, then the delay and browser.close(), whose failure
\* is caught by the outer except, which prints
TrendSave ==
    /\ pc = "tsave"
    /\ \E failed \in BOOLEAN :
          LET a == [title |-> run.sel.title, url |-> run.sel.url,
                    content |-> run.content, summarize |-> <<>>,
                    source |-> run.source]
              r == ai_save_news(Store, a, failed, now)
          IN /\ SetStore(r.st) /\ Observe("save", "ai", a, r)
             /\ run' = [Saved(run, a, r, FALSE) EXCEPT !.done = TRUE]
    /\ pc' = "idle"
    /\ UNCHANGED <<now, ops, prog, srcIdx, found, runs, benchVars>>

IdleRun == pc = "idle" /\ srcIdx = 0 /\ found = <<>> /\ run = NoRun /\ runs = 0

\* the store file before the first start: absent, or left by AI.py
Init ==
    /\ table \in {NoTable, LegacySchema}
    /\ rows = {} /\ seq = 0 /\ backups = 0 /\ now = 0 /\ ops = 0
    /\ prog = "none" /\ last = NoOp
    /\ IdleRun /\ IdleBench

Next == AgentBoot \/ AIBoot \/ AgentSave \/ AISave \/ Tick

Spec == Init /\ [][Next]_vars

\* a process of either program right after db = SimpleNewsDB(), on a store
\* that was absent or was left by AI.py
RunInit ==
    /\ \/ prog = "agent" /\ table \in {FullSchema, AddMissingColumns(LegacySchema)}
       \/ prog = "ai" /\ table \in {FullSchema, LegacySchema}
    /\ rows = {} /\ seq = 0 /\ backups = 0 /\ now = 0 /\ ops = 0 /\ last = NoOp
    /\ IdleRun /\ IdleBench

RunNext ==
    \/ Tick
    \/ FreshStart \/ FreshProbe \/ FreshFetch \/ FreshSave \/ FreshClose
    \/ TrendStart \/ TrendProbe \/ TrendFetch \/ TrendSave

SpecRun == RunInit /\ [][RunNext]_vars

\* a finished run in which every configured source was probed and none gave
\* a candidate
AllSourcesFailed ==
    /\ run.done /\ run.allFailed
    /\ \/ run.variant = "fresh" /\ Len(run.probes) = NumSources
       \/ run.variant = "trending" /\ Len(run.probes) = NumTrending

\* C4: a run in which every source fails ends with exactly one record saved
\* by the run, the time-based one, with a title and a url.
C4_FallbackSaved ==
    AllSourcesFailed =>
        /\ run.saves = 1
        /\ run.timeBased
        /\ run.written[1].title # <<>> /\ run.written[1].url # <<>>

\* C5: a finished run of search_fresh_ai_news has made exactly one
\* successful save.
C5_ExactlyOneSave ==
    (run.done /\ run.variant = "fresh") => run.saves = 1

----------------------------------------------------------------------------
(* Properties of the store *)

\* the url, title and content_hash the last save stores (or would store)
SavedUrl == IF last.prog = "agent" THEN clean_url(last.a) ELSE last.a.url
SavedTitle == IF last.prog = "agent" THEN clean_title(last.a) ELSE last.a.title
SavedHash == IF last.prog = "agent" THEN save_hash(last.a) ELSE Null

SaveReturned == last.op = "save"
SaveSucceeded == last.op = "save" /\ last.ret = "ok"

\* C1: after a successful save exactly one row holds the saved url and it
\* carries the title of that save, whatever rows held the url before; no
\* two rows ever share a url.
C1_UpsertByUrl ==
    /\ \A r1, r2 \in rows : r1.url = r2.url => r1 = r2
    /\ SaveSucceeded =>
          /\ Cardinality({r \in rows : r.url = SavedUrl}) = 1
          /\ \A r \in rows : r.url = SavedUrl => r.title = SavedTitle

\* a successful save over a row of the same url and another title
C1_Witness ==
    /\ SaveSucceeded
    /\ \E r \in last.pre : r.url = SavedUrl /\ r.title # SavedTitle
    /\ \E r \in rows : r.url = SavedUrl /\ r.title = SavedTitle

\* C2: when a save of Agent.py meets a stored row of another url with the
\* same normalized title and the same normalized 200-character snippet,
\* exactly one of the two rows is in the store afterwards.
C2_OneRowPerFingerprint ==
    (SaveReturned /\ last.prog = "agent") =>
        \A r \in last.pre :
            (/\ r.url # SavedUrl
             /\ r.title = SavedTitle
             /\ r.content_hash = SavedHash
             /\ Prefix(r.content, SnippetLen) = Prefix(clean_content(last.a), SnippetLen))
            => Cardinality({x \in rows : x.content_hash = SavedHash}) = 1

\* C3: no two rows share a content_hash.
C3_HashUnique ==
    \A r1, r2 \in rows :
        (r1.content_hash # Null /\ r1.content_hash = r2.content_hash) => r1 = r2

\* C6: a save repairs the schema at most once and writes at most twice.
C6_SingleRetry ==
    SaveReturned => last.cnt.repairs <= 1 /\ last.cnt.writes <= 2

\* C7: the schema initialisation creates the store afresh at most twice
\* (one attempt and one more).
C7_BoundedRecreate ==
    last.op = "init" => last.cnt.creates <= 2

\* C8: a save renames no store aside and keeps every row that shares neither
\* the url nor the content_hash of the saved article.
C8_SaveNotDestructive ==
    SaveReturned =>
        /\ backups = last.preBackups
        /\ \A r \in last.pre :
              (r.url # SavedUrl /\ r.content_hash # SavedHash) => r \in rows

\* a stored row is complete: every column of the Agent.py schema has a value
Complete(r) ==
    /\ r.title # Null /\ r.url # Null /\ r.content # Null /\ r.summarize # Null
    /\ r.source # Null /\ r.content_hash # Null /\ r.scraped_date \in Nat

\* C9: a save of Agent.py does not raise; after it returned success one
\* complete row holds the url, and after it returned failure the rows are
\* the rows of before.
C9_AllOrNothing ==
    (SaveReturned /\ last.prog = "agent") =>
        /\ last.ret # "raise"
        /\ last.ret = "ok" =>
              /\ Cardinality({r \in rows : r.url = SavedUrl}) = 1
              /\ \A r \in rows : r.url = SavedUrl => Complete(r)
        /\ last.ret = "fail" => rows = last.pre

----------------------------------------------------------------------------
(* The normaliser bench: a text is built from a seed by inserting characters *)
(* anywhere, then normalised, then normalised again.                         *)

Alphabet ==
    {"NUL", "CR", "LF", "TAB", "SOH", " ", "NBSP", "LDQ", "RSQ", "EN", "EM",
     "ELL", ":", "\"", "'", ",", "a"}

\* the empty text and every key of the replacements table
Seeds == {<<>>} \cup {Replacements[k][1] : k \in 1..Len(Replacements)}

InsertAt(s, i, c) == SubSeq(s, 1, i) \o <<c>> \o SubSeq(s, i + 1, Len(s))

IdleStore ==
    /\ table = NoTable /\ rows = {} /\ seq = 0 /\ backups = 0 /\ now = 0
    /\ ops = 0 /\ prog = "none" /\ last = NoOp

NormInit ==
    /\ text \in Seeds /\ edits = 0 /\ out1 = NoText /\ out2 = NoText
    /\ IdleCalls /\ IdleStore /\ IdleRun

NormInsert ==
    /\ out1 = NoText /\ edits < MaxEdits
    /\ \E i \in 0..Len(text), c \in Alphabet : text' = InsertAt(text, i, c)
    /\ edits' = edits + 1
    /\ UNCHANGED <<out1, out2, args, res, storeVars, runVars>>

NormApply ==
    /\ out1 = NoText
    /\ out1' = clean_text_for_db(text)
    /\ UNCHANGED <<text, edits, out2, args, res, storeVars, runVars>>

NormReapply ==
    /\ out1 # NoText /\ out2 = NoText
    /\ out2' = clean_text_for_db(out1)
    /\ UNCHANGED <<text, edits, out1, args, res, storeVars, runVars>>

NormNext == NormInsert \/ NormApply \/ NormReapply

SpecNorm == NormInit /\ [][NormNext]_vars

\* C10: clean_text_for_db is idempotent: normalising a normalised text
\* changes nothing.
C10_Idempotent == out2 # NoText => out2 = out1

----------------------------------------------------------------------------
(* The fingerprint bench: two (title, content) pairs are fingerprinted by   *)
(* is_duplicate and by save_news, then fingerprinted again.                 *)

HashAlphabet == {"a", "A", " "}

ShortTexts ==
    {<<>>} \cup {<<c>> : c \in HashAlphabet}
           \cup {<<c, d>> : c \in HashAlphabet, d \in HashAlphabet}

\* contents longer than the snippet: two that differ after the window, one
\* that differs from them inside it
Filler == [i \in 1..SnippetLen |-> "x"]
LongContents ==
    {Filler \o <<"a">>, Filler \o <<"b">>, [Filler EXCEPT ![SnippetLen] = "y"] \o <<"a">>}

HashInputs ==
    {[title |-> t, url |-> <<"u">>, content |-> c, summarize |-> <<>>, source |-> <<>>] :
        t \in ShortTexts, c \in ShortTexts \cup LongContents}

\* the four fingerprints of the two inputs: is_duplicate's, then save_news's
Fingerprints ==
    <<duplicate_hash(args[1].title, args[1].content),
      duplicate_hash(args[2].title, args[2].content),
      save_hash(args[1]), save_hash(args[2])>>

HashInit ==
    /\ args \in {<<a, b>> : a \in HashInputs, b \in HashInputs}
    /\ res = <<>>
    /\ text = <<>> /\ edits = 0 /\ out1 = NoText /\ out2 = NoText
    /\ IdleStore /\ IdleRun

HashCall ==
    /\ res = <<>>
    /\ res' = Fingerprints
    /\ UNCHANGED <<args, text, edits, out1, out2, storeVars, runVars>>

HashRecall ==
    /\ Len(res) = 4
    /\ res' = res \o Fingerprints
    /\ UNCHANGED <<args, text, edits, out1, out2, storeVars, runVars>>

HashNext == HashCall \/ HashRecall

SpecHash == HashInit /\ [][HashNext]_vars

\* the two inputs differ in the title or in the first 200 characters of the
\* content
WindowsDiffer ==
    \/ args[1].title # args[2].title
    \/ Prefix(args[1].content, SnippetLen) # Prefix(args[2].content, SnippetLen)

\* C11: a repeated call returns the same fingerprint, and two inputs that
\* differ in the title or in the 200-character content window have
\* different fingerprints, in is_duplicate and in save_news.
C11_Fingerprint ==
    /\ Len(res) = 8 => SubSeq(res, 5, 8) = SubSeq(res, 1, 4)
    /\ (Len(res) >= 4 /\ WindowsDiffer) => (res[1] # res[2] /\ res[3] # res[4])

----------------------------------------------------------------------------
(* Properties of the discovery pipelines *)

\* the loop of search_trending_ai_news is over
TrendLoopOver ==
    run.variant = "trending" /\ pc # "tprobing" /\ Len(run.probes) = NumTrending

\* the place in cands of the earliest article with the highest score
EarliestBest ==
    CHOOSE k \in 1..Len(run.cands) :
        /\ \A j \in 1..Len(run.cands) : run.cands[j].score <= run.cands[k].score
        /\ \A j \in 1..(k - 1) : run.cands[j].score < run.cands[k].score

----------------------------------------------------------------------------
(* The scorer bench: two titles of one source are scored.                   *)

\* "Breaking: OpenAI announces GPT breakthrough"
ExampleHigh ==
    <<"B", "r", "e", "a", "k", "i", "n", "g", ":", " ", "O", "p", "e", "n",
     "A", "I", " ", "a", "n", "n", "o", "u", "n", "c", "e", "s", " ", "G",
     "P", "T", " ", "b", "r", "e", "a", "k", "t", "h", "r", "o", "u", "g",
     "h">>

\* "OpenAI update"
ExampleLow ==
    <<"O", "p", "e", "n", "A", "I", " ", "u", "p", "d", "a", "t", "e">>

\* words a title of the bench is made of: keywords of each category, one of
\* them inside another ("new" in "news"), and a word that is no keyword
ScoreWords ==
    << <<"n", "e", "w">>, <<"n", "e", "w", "s">>, <<"G", "P", "T">>,
       <<"O", "p", "e", "n", "A", "I">>, <<"x">> >>

ScoreTitles ==
    {<<>>, ExampleHigh, ExampleLow}
    \cup {ScoreWords[i] : i \in 1..Len(ScoreWords)}
    \cup {ScoreWords[i] \o <<" ">> \o ScoreWords[j] :
             i \in 1..Len(ScoreWords), j \in 1..Len(ScoreWords)}

ScoreInit ==
    /\ args \in {<<[title |-> t1, source |-> ExtractorLabel[k]],
                   [title |-> t2, source |-> ExtractorLabel[k]]>> :
                    t1 \in ScoreTitles, t2 \in ScoreTitles, k \in 1..NumTrending}
    /\ res = <<>>
    /\ text = <<>> /\ edits = 0 /\ out1 = NoText /\ out2 = NoText
    /\ IdleStore /\ IdleRun

ScoreCall ==
    /\ res = <<>>
    /\ res' = <<calculate_trending_score(args[1]), calculate_trending_score(args[2])>>
    /\ UNCHANGED <<args, text, edits, out1, out2, storeVars, runVars>>

SpecScore == ScoreInit /\ [][ScoreCall]_vars

\* the keywords of words that occur in the lowered title
MatchedIn(words, title) ==
    {i \in 1..Len(words) : Contains(Lower(title), words[i])}

\* every keyword the first title matches, the second matches too
MatchesSubset ==
    /\ MatchedIn(trending_keywords, args[1].title) \subseteq MatchedIn(trending_keywords, args[2].title)
    /\ MatchedIn(ai_companies, args[1].title) \subseteq MatchedIn(ai_companies, args[2].title)
    /\ MatchedIn(hot_topics, args[1].title) \subseteq MatchedIn(hot_topics, args[2].title)

\* C13: for one source, a title that matches a superset of the keywords of
\* another never scores lower (so equal sets score alike, whatever the
\* number of occurrences), and "Breaking: OpenAI announces GPT breakthrough"
\* scores higher than "OpenAI update".
C13_ScoreMonotone ==
    Len(res) = 2 =>
        /\ MatchesSubset => res[1] <= res[2]
        /\ (args[1].title = ExampleHigh /\ args[2].title = ExampleLow) => res[1] > res[2]

\* a keyword written twice against the keyword written once, both scored
C13_Witness ==
    /\ Len(res) = 2
    /\ args[1].title = ScoreWords[1] \o <<" ">> \o ScoreWords[1]
    /\ args[2].title = ScoreWords[1]
    /\ res[1] = res[2] /\ res[1] > 0

----------------------------------------------------------------------------
(* The summary bench: a title made of one word of each list (or none) is    *)
(* summarised, with and without content.                                    *)

\* "OpenAI announces breakthrough AI model"
SummaryExample ==
    <<"O", "p", "e", "n", "A", "I", " ", "a", "n", "n", "o", "u", "n", "c",
     "e", "s", " ", "b", "r", "e", "a", "k", "t", "h", "r", "o", "u", "g",
     "h", " ", "A", "I", " ", "m", "o", "d", "e", "l">>

\* "announced"
Announced ==
    <<"a", "n", "n", "o", "u", "n", "c", "e", "d">>

\* a word of list, or no word
OneOf(list) == {<<>>} \cup {list[i] : i \in 1..Len(list)}

\* the topics that lead to each branch of the topic choice
TopicWords == <<ai_topics[1], ai_topics[3], ai_topics[5], ai_topics[9], ai_topics[10]>>

\* one word of each group of closing-sentence words
ClosingWords ==
    <<BreakthroughWords[1], PartnershipWords[1], FundingWords[1], ResearchWords[1]>>

SummaryTitles ==
    {SummaryExample}
    \cup {c \o <<" ">> \o a \o <<" ">> \o t \o <<" ">> \o w :
             c \in OneOf(companies), a \in OneOf(actions),
             t \in OneOf(TopicWords), w \in OneOf(ClosingWords)}

SummaryContents == {<<>>, companies[9] \o <<" ">> \o ai_topics[10]}

SummaryInit ==
    /\ args \in {<<t, c>> : t \in SummaryTitles, c \in SummaryContents}
    /\ res = <<>>
    /\ text = <<>> /\ edits = 0 /\ out1 = NoText /\ out2 = NoText
    /\ IdleStore /\ IdleRun

SummaryCall ==
    /\ res = <<>>
    /\ res' = <<create_crispy_summary(args[1], args[2])>>
    /\ UNCHANGED <<args, text, edits, out1, out2, storeVars, runVars>>

SpecSummary == SummaryInit /\ [][SummaryCall]_vars

\* s ends with tail
EndsWith(s, tail) ==
    Len(s) >= Len(tail) /\ SubSeq(s, Len(s) - Len(tail) + 1, Len(s)) = tail

\* C14: create_crispy_summary returns at most 200 characters, and for the
\* title "OpenAI announces breakthrough AI model" the result names OpenAI,
\* holds the past-tense action and ends with the breakthrough closing.
C14_SummaryBounded ==
    Len(res) = 1 =>
        /\ Len(res[1]) <= SummaryMaxLen
        /\ args[1] = SummaryExample =>
              /\ Contains(res[1], OpenAIName)
              /\ Contains(res[1], Announced)
              /\ EndsWith(res[1], BreakthroughClosing)

\* the example title was summarised
C14_Witness ==
    /\ Len(res) = 1 /\ args[1] = SummaryExample
    /\ EndsWith(res[1], BreakthroughClosing)

\* the content fetch of the run failed
FetchFailed == run.fetch \in {"failed", "raised"}

\* the source of the selected article, as the run names it
SelectedSource ==
    IF run.variant = "fresh" THEN run.sel.source_name ELSE run.sel.source

\* the save of the selected article has returned
SelectedSaved ==
    \/ run.variant = "fresh" /\ pc = "close"
    \/ run.variant = "trending" /\ run.done /\ run.calls = 1

\* C15: after a failed content fetch the run goes on to the save with a
\* content that names the source of the selected article, and the row the
\* save stores carries that content.
C15_FetchFailureContent ==
    FetchFailed =>
        /\ pc \in {"save", "tsave"} \/ run.calls >= 1
        /\ Contains(run.content, SelectedSource)
        /\ (SelectedSaved /\ last.ret = "ok") =>
              \E r \in rows : r.url = SavedUrl /\ Contains(r.content, SelectedSource)


----------------------------------------------------------------------------
(* view_saved_news *)

MaxSaves == 7       \* saves before the saved news are viewed

\* LIMIT of the SELECT of view_saved_news, in Agent.py and in AI.py
AgentLimit == 10
AILimit == 5

ViewLetters == <<"a", "b", "c", "d", "e", "f", "g", "h", "i", "j">>

\* the k-th article saved: its url, title and content are its own
ViewArticle(k) ==
    [title |-> <<"t", ViewLetters[k]>>, url |-> <<"u", ViewLetters[k]>>,
     content |-> <<"c", ViewLetters[k]>>, summarize |-> <<>>, source |-> <<>>]

\* SELECT ... FROM news ORDER BY created_at DESC LIMIT n: the results the
\* statement allows; rows of equal created_at come in any order
RECURSIVE OrderByCreatedDesc(_, _)
OrderByCreatedDesc(rs, n) ==
    IF n = 0 \/ rs = {} THEN {<<>>}
    ELSE LET newest == {r \in rs : \A o \in rs : o.created_at <= r.created_at}
         IN UNION {{<<r>> \o s : s \in OrderByCreatedDesc(rs \ {r}, n - 1)} :
                      r \in newest}

\* articles = cursor.fetchall() of view_saved_news
view_saved_news(who, rs) ==
    OrderByCreatedDesc(rs, IF who = "agent" THEN AgentLimit ELSE AILimit)

\* a process of either program on its own empty store
ViewInit ==
    /\ \/ prog = "agent" /\ table = FullSchema
       \/ prog = "ai" /\ table = LegacySchema
    /\ rows = {} /\ seq = 0 /\ backups = 0 /\ now = 0 /\ ops = 0 /\ last = NoOp
    /\ IdleRun /\ IdleBench

\* db.save_news(...) of the next article, which succeeds
ViewSave ==
    /\ res = <<>> /\ ops < MaxSaves
    /\ LET a == ViewArticle(ops + 1)
           r == IF prog = "agent" THEN save_news(Store, a, NoFaults, now, 1, ZeroCount)
                ELSE ai_save_news(Store, a, FALSE, now)
       IN SetStore(r.st) /\ Observe("save", prog, a, r)
    /\ ops' = ops + 1
    /\ UNCHANGED <<now, prog, runVars, text, edits, out1, out2, args, res>>

\* view_saved_news()
View ==
    /\ res = <<>>
    /\ \E articles \in view_saved_news(prog, rows) : res' = <<articles>>
    /\ UNCHANGED <<storeVars, runVars, text, edits, out1, out2, args>>

ViewNext == ViewSave \/ View \/ Tick

SpecView == ViewInit /\ [][ViewNext]_vars

\* the saved news were viewed after n saves
ViewedAfter(n) == res # <<>> /\ ops = n /\ Cardinality(rows) = n

\* C16: the view returns the most recently created rows, newest first, as
\* many as its limit allows: after 7 successful saves of distinct articles a
\* limit of 5 yields exactly 5 rows, the 5 saved last, the last saved first.
C16_RecentNewestFirst ==
    \A n \in 0..MaxSaves :
        ViewedAfter(n) =>
            LET articles == res[1]
                limit == IF prog = "agent" THEN AgentLimit ELSE AILimit
            IN /\ Len(articles) = Min(limit, n)
               /\ \A i \in 1..Len(articles) : articles[i].id = n - i + 1


\* the loop of the run was entered and has been left
LoopLeft ==
    \/ pc \in {"fetch", "save", "close", "tfetch", "tsave"}
    \/ pc = "idle" /\ run.done /\ run.probes # <<>>

\* C17: the sources are probed one at a time in their configured order, each
\* at most once in a run: the pass over source i, whatever it gave, is
\* followed by the pass over source i + 1; the loop over trending_sources
\* probes every source exactly once.
C17_SequentialProbes ==
    /\ \A i \in 1..Len(run.probes) : run.probes[i] = i
    /\ pc \in {"probing", "tprobing"} => srcIdx = Len(run.probes) + 1
    /\ (run.variant = "trending" /\ LoopLeft) => Len(run.probes) = NumTrending
    /\ (run.variant = "fresh" /\ LoopLeft) =>
          \/ found # <<>> /\ ~run.timeBased
          \/ Len(run.probes) = NumSources

\* a run of search_trending_ai_news whose first two sources failed or gave
\* nothing has left the loop after the pass over the third
C17_Witness ==
    /\ run.variant = "trending" /\ pc = "tfetch"
    /\ run.probes = <<1, 2, 3>> /\ run.cands # <<>>
    /\ run.cands[1].source = ExtractorLabel[3]


\* C18: the loop of search_fresh_ai_news goes to a further source only while
\* no article is held: the articles held all come from the source probed
\* last, and never more than three are held.
C18_StopsAtFirstFresh ==
    /\ Len(found) <= FreshEnough
    /\ pc = "probing" => found = <<>>
    /\ (run.variant = "fresh" /\ LoopLeft /\ ~run.timeBased) =>
          \A i \in 1..Len(found) :
              found[i].source_name = AI_NEWS_SOURCES[Len(run.probes)]

\* the first source gave nothing and the second a listing of four articles,
\* of which three are held
C18_Witness ==
    /\ run.variant = "fresh" /\ pc = "fetch"
    /\ run.probes = <<1, 2>> /\ Len(found) = FreshEnough


----------------------------------------------------------------------------
(* The stored fields *)

MaxStored == 2      \* saves of the stored-field runs

\* a source name one character longer than its bound, with a space as the
\* last character that is kept
LongSource == [i \in 1..(SourceMax - 1) |-> "x"] \o <<" ", "y">>

\* ': "'", a' with two spaces after the colon
UncollapsedKey == <<":", " ", " ", "\"", "'", "\"", ",", " ", "a">>

\* a title one character longer than its bound
LongTitle == [i \in 1..TitleMax |-> "x"] \o <<"y">>

FieldInputs ==
    {[title |-> t, url |-> u, content |-> c, summarize |-> <<>>, source |-> s] :
        t \in {<<"a">>, UncollapsedKey, <<"LDQ", "a", "RSQ">>, LongTitle, <<" ">>,
               <<"SOH">>},
        u \in {<<"u">>, <<"v">>, <<" ">>},
        c \in {<<>>, <<"c", "LF", "d">>, <<"c", " ">>},
        s \in {<<>>, <<"s">>, LongSource}}

\* db.save_news(...) of either program, which succeeds
FieldSave ==
    /\ ops < MaxStored
    /\ \E a \in FieldInputs :
          LET r == IF prog = "agent" THEN save_news(Store, a, NoFaults, now, 1, ZeroCount)
                   ELSE ai_save_news(Store, a, FALSE, now)
          IN SetStore(r.st) /\ Observe("save", prog, a, r)
    /\ ops' = ops + 1
    /\ UNCHANGED <<now, prog, runVars, benchVars>>

FieldNext == FieldSave \/ Tick

SpecFields == ViewInit /\ [][FieldNext]_vars

\* a stored text that cleaning leaves as it is, without curly quotes, of at
\* most n characters
Normalized(f, n) ==
    f # Null =>
        /\ clean_text_for_db(f) = f
        /\ Chars(f) \cap {"LDQ", "RDQ", "LSQ", "RSQ"} = {}
        /\ Len(f) <= n

\* C19: every text field of every stored row is left unchanged by
\* clean_text_for_db, holds no smart punctuation and is within its length
\* bound, also when it was cut to the bound.
C19_StoredNormalized ==
    \A r \in rows :
        /\ Normalized(r.title, TitleMax) /\ Normalized(r.url, UrlMax)
        /\ Normalized(r.content, ContentMax) /\ Normalized(r.summarize, SummaryMax)
        /\ Normalized(r.source, SourceMax)


\* C20: when a store operation has returned, on its success path or on a
\* failure path, every connection it opened has been closed.
C20_ConnectionsClosed ==
    (last.op # "none" /\ last.ret # "raise") => last.cnt.closed = last.cnt.opened


\* a save of Agent.py has just returned success
AgentSaved == last.op = "save" /\ last.prog = "agent" /\ last.ret = "ok"

\* C21: the content_hash a save stores is the fingerprint of the whole
\* cleaned title, however long, and of the first 200 characters of the
\* cleaned content.
C21_HashBeforeTruncation ==
    AgentSaved =>
        \A r \in rows :
            r.id = seq =>
                r.content_hash = duplicate_hash(clean_text_for_db(last.a.title),
                                                clean_text_for_db(last.a.content))


----------------------------------------------------------------------------
(* A run after an earlier run *)

\* the store an earlier run of Agent.py left: the article c of a listing,
\* saved with the content of its page
EarlierRun(c) ==
    save_news([table |-> FullSchema, rows |-> {}, seq |-> 0, backups |-> 0],
              [title |-> c.title, url |-> c.url, content |-> PageContent,
               summarize |-> create_crispy_summary(c.title, PageContent),
               source |-> PageHost],
              NoFaults, 0, 1, ZeroCount).st

\* a process of either program on the store of an earlier run
RerunInit ==
    /\ prog \in {"agent", "ai"}
    /\ \E c \in {FreshCand1, FreshCand2} :
          LET st == EarlierRun(c)
          IN table = st.table /\ rows = st.rows /\ seq = st.seq
             /\ backups = st.backups
    /\ now = 0 /\ ops = 0 /\ last = NoOp
    /\ IdleRun /\ IdleBench

SpecRerun == RerunInit /\ [][RunNext]_vars

\* C22: an article whose title is the title of a stored row is not held as a
\* fresh article by a later run of search_fresh_ai_news, so it is not
\* selected and saved again.
C22_StoredTitleNotFresh ==
    (run.variant = "fresh" /\ pc \in {"probing", "fetch"}) =>
        \A i \in 1..Len(found) : \A r \in rows : r.title # found[i].title

----------------------------------------------------------------------------
(* Saves on a store of the program's own schema *)

\* db.save_news(...) of either program, which meets no fault
PlainSave ==
    /\ ops < MaxOps
    /\ \E a \in Articles :
          LET r == IF prog = "agent" THEN save_news(Store, a, NoFaults, now, 1, ZeroCount)
                   ELSE ai_save_news(Store, a, FALSE, now)
          IN SetStore(r.st) /\ Observe("save", prog, a, r)
    /\ ops' = ops + 1
    /\ UNCHANGED <<now, prog, runVars, benchVars>>

SavesNext == PlainSave \/ Tick

SpecSaves == ViewInit /\ [][SavesNext]_vars

\* C23: a save that returns success leaves at least as many rows as it
\* found, also when its url is the url of one row and its content_hash that
\* of another.
C23_RowCountKept ==
    SaveSucceeded => Cardinality(rows) >= Cardinality(last.pre)


\* C24: every stored row has a non-empty title and a non-empty url,
\* whatever title and url the save was given: empty, of whitespace only or
\* of control characters only.
C24_TitleAndUrlPresent ==
    \A r \in rows : r.title # <<>> /\ r.url # <<>>

====
